---- MODULE Spec2Model ----
(***************************************************************************)
(* Model of dbc-data: the derive macro that turns the messages of a .dbc   *)
(* schema into records with decode/encode over byte buffers.               *)
(*                                                                         *)
(* Integers of the generated code are bit vectors, written as the set of   *)
(* the positions of their 1 bits (bit 0 is the least significant), so that *)
(* every width up to 64 bits is computed exactly.  A byte of a buffer is a *)
(* subset of 0..7.  An f32 is a dyadic rational [m, e] = m * 2^e kept in   *)
(* canonical form (m odd, or m = 0 and e = 0) and rounded to 24 bits.      *)
(***************************************************************************)
EXTENDS Integers, Sequences, FiniteSets, TLC

VARIABLES
    dbc,      \* the parsed schema: a sequence of messages
    input,    \* the derive input: a sequence of requested messages
    checked,  \* the build profile: TRUE when arithmetic overflow panics
    gen,      \* outcome of the derive macro: "pending", "ok", "error", "panic"
    out,      \* the generated messages, by identifier
    fields,   \* the message records: identifier -> signal name -> value
    pdu,      \* the caller's byte buffer
    pre,      \* the buffer as it was handed to the last decode/encode call
    op,       \* the last call: [f |-> function, m |-> message]
    ret,      \* what it returned: "none", "true", "false", "ok", "err", "panic"
    calls,    \* how many calls of generated functions were made
    made      \* the instance the last try_from returned, if it returned one

vars == <<dbc, input, checked, gen, out, fields, pdu, pre, op, ret, calls, made>>

----------------------------------------------------------------------------
(* Machine integers as bit sets.                                           *)

Bits(w) == 0 .. (w - 1)

\* A computed value, or the panic that cut the computation short.
Val(v) == [p |-> FALSE, v |-> v]
Panic == [p |-> TRUE, v |-> {}]

Min(S) == CHOOSE x \in S : \A y \in S : x <= y
Max(S) == CHOOSE x \in S : \A y \in S : x >= y

RECURSIVE Pow2(_)
Pow2(n) == IF n = 0 THEN 1 ELSE 2 * Pow2(n - 1)

\* x << n in a type of w bits.  A shift amount outside 0..w-1 panics with
\* overflow checks and is masked to the width without them.
shl(x, n, w, chk) ==
    IF x.p THEN Panic
    ELSE IF n \notin Bits(w) /\ chk THEN Panic
    ELSE LET k == n % w
         IN  Val({i + k : i \in x.v} \cap Bits(w))

\* x >> n in a type of w bits: arithmetic when the type is signed.
shr(x, n, w, sg, chk) ==
    IF x.p THEN Panic
    ELSE IF n \notin Bits(w) /\ chk THEN Panic
    ELSE LET k == n % w
             fill == IF sg /\ (w - 1) \in x.v THEN (w - k) .. (w - 1) ELSE {}
         IN  Val({i - k : i \in {j \in x.v : j >= k}} \cup fill)

band(x, y) == IF x.p \/ y.p THEN Panic ELSE Val(x.v \cap y.v)
bor(x, y) == IF x.p \/ y.p THEN Panic ELSE Val(x.v \cup y.v)
bnot(x, w) == IF x.p THEN Panic ELSE Val(Bits(w) \ x.v)

\* x - 1 in a type of w bits: 0 - 1 overflows an unsigned type, MIN - 1 a
\* signed one; without overflow checks the result wraps.
dec(x, w, sg, chk) ==
    IF x.p THEN Panic
    ELSE IF x.v = {} THEN (IF sg THEN Val(Bits(w))
                           ELSE IF chk THEN Panic ELSE Val(Bits(w)))
    ELSE IF sg /\ x.v = {w - 1} /\ chk THEN Panic
    ELSE LET m == Min(x.v)
         IN  Val((x.v \ {m}) \cup Bits(m))

\* The literal 1.
lit1 == Val({0})

\* pdu[i] with Rust's bounds check (i counts from 0).
rd(buf, i) == IF (i + 1) \in DOMAIN buf THEN Val(buf[i + 1]) ELSE Panic

\* `as u8`: the low eight bits.
as_u8(x) == IF x.p THEN Panic ELSE Val(x.v \cap Bits(8))

----------------------------------------------------------------------------
(* f32 arithmetic on dyadic rationals m * 2^e, round-to-nearest-even at    *)
(* 24 significant bits.  Exponent range, infinities and NaN are not        *)
(* modelled: the schemas drawn below keep every result finite and normal.  *)

RECURSIVE ToNat(_)
ToNat(S) == IF S = {} THEN 0 ELSE LET i == Max(S) IN Pow2(i) + ToNat(S \ {i})

RECURSIVE BitsOf(_)
BitsOf(n) ==
    IF n = 0 THEN {}
    ELSE {i + 1 : i \in BitsOf(n \div 2)} \cup (IF n % 2 = 1 THEN {0} ELSE {})

Abs(n) == IF n < 0 THEN -n ELSE n
Sgn(n) == IF n < 0 THEN -1 ELSE 1

RECURSIVE BitLen(_)
BitLen(n) == IF n = 0 THEN 0 ELSE 1 + BitLen(n \div 2)

RECURSIVE Canon(_, _)
Canon(m, e) ==
    IF m = 0 THEN [m |-> 0, e |-> 0]
    ELSE IF m % 2 = 0 THEN Canon(m \div 2, e + 1)
    ELSE [m |-> m, e |-> e]

F32Zero == [m |-> 0, e |-> 0]
F32One == [m |-> 1, e |-> 0]

\* n * 2^e (plus a non-zero tail below the last bit of n when sticky) rounded
\* to 24 significant bits, ties to even.
RoundF32s(n, e, sticky) ==
    LET a == Abs(n)
        k == BitLen(a) - 24
    IN  IF k <= 0 THEN Canon(n, e)
        ELSE LET q == a \div Pow2(k)
                 r == a % Pow2(k)
                 half == Pow2(k - 1)
                 up == r > half \/ (r = half /\ (sticky \/ q % 2 = 1))
             IN  Canon(Sgn(n) * (q + (IF up THEN 1 ELSE 0)), e + k)

RoundF32(n, e) == RoundF32s(n, e, FALSE)

\* `x as f32` of an f64 schema number.
f64_as_f32(x) == RoundF32(x.m, x.e)

\* Two's complement negation in w bits.
Negate(S, w) ==
    IF S = {} THEN {}
    ELSE LET m0 == Min(S) IN {m0} \cup {i \in (m0 + 1) .. (w - 1) : i \notin S}

\* `v as f32` of an integer of w bits.
int_as_f32(v, w, sg) ==
    LET neg == sg /\ (w - 1) \in v
        mag == IF neg THEN (IF v = {w - 1} THEN v ELSE Negate(v, w)) ELSE v
        s == IF neg THEN -1 ELSE 1
    IN  IF mag = {} THEN F32Zero
        ELSE LET h == Max(mag)
                 lo == h - 23
             IN  IF lo <= 0 THEN Canon(s * ToNat(mag), 0)
                 ELSE LET q == ToNat({i - lo : i \in {j \in mag : j >= lo}})
                          up == (lo - 1) \in mag
                                /\ ((\E i \in mag : i < lo - 1) \/ q % 2 = 1)
                      IN  Canon(s * (q + (IF up THEN 1 ELSE 0)), lo)

f32_mul(a, b) == RoundF32(a.m * b.m, a.e + b.e)

\* a + b: exact on the common exponent, then rounded.  When the exponents
\* are too far apart to align, the smaller operand lies below a quarter of
\* the larger one's last place and the larger one is the result.
f32_add(a, b) ==
    IF a.m = 0 THEN b
    ELSE IF b.m = 0 THEN a
    ELSE LET e == IF a.e < b.e THEN a.e ELSE b.e
             da == a.e - e
             db == b.e - e
         IN  IF BitLen(Abs(a.m)) + da > 30 THEN a
             ELSE IF BitLen(Abs(b.m)) + db > 30 THEN b
             ELSE RoundF32(a.m * Pow2(da) + b.m * Pow2(db), e)

f32_neg(a) == [m |-> -a.m, e |-> a.e]
f32_sub(a, b) == f32_add(a, f32_neg(b))

\* a / b for a divisor of at most four significant bits (every scale drawn
\* below): the quotient to at least 25 bits, the remainder as the sticky bit.
f32_div(a, b) ==
    IF a.m = 0 THEN F32Zero
    ELSE LET s == 30 - BitLen(Abs(a.m))
             num == Abs(a.m) * Pow2(s)
             q == num \div Abs(b.m)
             r == num % Abs(b.m)
         IN  RoundF32s(Sgn(a.m) * Sgn(b.m) * q, a.e - b.e - s, r # 0)

\* `x as T` of an f32 for an integer type T of w bits: truncation toward
\* zero, saturating at the ends of the type.
f32_as_int(x, w, sg) ==
    LET a == Abs(x.m)
        mag == IF x.e >= 0 THEN {i + x.e : i \in BitsOf(a)}
               ELSE IF -x.e > 30 THEN {}
               ELSE BitsOf(a \div Pow2(-x.e))
    IN  IF mag = {} THEN {}
        ELSE IF x.m < 0
        THEN (IF ~sg THEN {}
              ELSE IF Max(mag) >= w - 1 THEN {w - 1}
              ELSE Negate(mag, w))
        ELSE IF sg THEN (IF Max(mag) >= w - 1 THEN Bits(w - 1) ELSE mag)
        ELSE (IF Max(mag) >= w THEN Bits(w) ELSE mag)

----------------------------------------------------------------------------
(* signal.rs: SignalInfo and the code it generates for one signal.  The    *)
(* operators below give the value the generated statements compute, with   *)
(* the generator's own usize arithmetic folded in.                         *)

\* The identifier spelled by a sequence of characters.
RECURSIVE Join(_)
Join(cs) == IF cs = <<>> THEN "" ELSE Head(cs) \o Join(Tail(cs))

\* SignalInfo::new with the float decision taken from scale or offset.
SignalInfo_new_by_offset(signal) ==
    LET signed == signal.value_type = "Signed"
        width == signal.size
        scale == f64_as_f32(signal.factor)
        nwidth == CASE width = 1 -> 1
                    [] width \in 2 .. 8 -> 8
                    [] width \in 9 .. 16 -> 16
                    [] width \in 17 .. 32 -> 32
                    [] OTHER -> 64
        utype == IF width = 1 THEN "bool"
                 ELSE (IF signed THEN "i" ELSE "u") \o ToString(nwidth)
        ntype == IF scale = F32One /\ signal.offset = F32Zero THEN utype ELSE "f32"
    IN  [signal |-> signal, ident |-> Join(signal.name), ntype |-> ntype,
         utype |-> utype, start |-> signal.start_bit, width |-> width,
         nwidth |-> nwidth, scale |-> scale, signed |-> signed]

\* SignalInfo::new.  A schema signal is [name, start_bit, size, byte_order,
\* value_type, factor, offset, values].
SignalInfo_new(signal) ==
    LET signed == signal.value_type = "Signed"
        width == signal.size
        scale == f64_as_f32(signal.factor)
        nwidth == CASE width = 1 -> 1
                    [] width \in 2 .. 8 -> 8
                    [] width \in 9 .. 16 -> 16
                    [] width \in 17 .. 32 -> 32
                    [] OTHER -> 64
        utype == IF width = 1 THEN "bool"
                 ELSE (IF signed THEN "i" ELSE "u") \o ToString(nwidth)
        ntype == IF scale = F32One THEN utype ELSE "f32"
    IN  [signal |-> signal, ident |-> Join(signal.name), ntype |-> ntype,
         utype |-> utype, start |-> signal.start_bit, width |-> width,
         nwidth |-> nwidth, scale |-> scale, signed |-> signed]

is_float(s) == s.scale # F32One

is_le(s) == s.signal.byte_order = "LittleEndian"

\* The sign-extension block both unaligned extractors end with.
sign_extend(s, v, chk) ==
    IF s.signed /\ s.width < s.nwidth
    THEN LET mask == shl(lit1, s.width - 1, s.nwidth, chk)
             mask2 == bor(mask, dec(mask, s.nwidth, s.signed, chk))
         IN  IF v.p \/ mask.p THEN Panic
             ELSE IF (v.v \cap mask.v) # {} THEN bor(v, bnot(mask2, s.nwidth))
             ELSE v
    ELSE v

\* extract_aligned reading every signal with from_le_bytes.
extract_aligned_le_only(s, buf, le) ==
    LET low == s.start \div 8
        n == s.width \div 8
    IN  IF \E k \in 0 .. (n - 1) : rd(buf, low + k).p THEN Panic
        ELSE Val(UNION {{8 * k + i : i \in buf[low + k + 1]} : k \in 0 .. (n - 1)})

\* extract_aligned: from_le_bytes / from_be_bytes of width/8 bytes from low.
\* Generation panics (unimplemented!) on any other width.
extract_aligned(s, buf, le) ==
    LET low == s.start \div 8
        n == s.width \div 8
        at(k) == IF le THEN 8 * k ELSE 8 * (n - 1 - k)
    IN  IF \E k \in 0 .. (n - 1) : rd(buf, low + k).p THEN Panic
        ELSE Val(UNION {{at(k) + i : i \in buf[low + k + 1]} : k \in 0 .. (n - 1)})

\* The statements extract_unaligned_le appends for bytes o..count.
RECURSIVE le_bytes(_, _, _, _, _)
le_bytes(s, buf, chk, o, v) ==
    LET low == s.start \div 8
        left == s.start % 8
        high == (s.start + s.width - 1) \div 8
        right == (s.start + s.width) % 8
        count == high - low
        byte == low + o
        w == s.nwidth
    IN  IF o > count THEN v
        ELSE IF o = 0
        THEN LET v0 == rd(buf, byte)
                 v1 == IF left # 0
                       THEN (IF count = 0
                             THEN band(shr(v0, left, w, s.signed, chk),
                                       dec(shl(lit1, s.width, w, chk), w, s.signed, chk))
                             ELSE shr(v0, left, w, s.signed, chk))
                       ELSE band(v0, dec(shl(lit1, s.width, w, chk), w, s.signed, chk))
             IN  le_bytes(s, buf, chk, 1, v1)
        ELSE LET shift == (o * 8) - left
                 b == IF o = count /\ right # 0
                      THEN band(rd(buf, byte),
                                dec(shl(lit1, right, 8, chk), 8, FALSE, chk))
                      ELSE rd(buf, byte)
             IN  le_bytes(s, buf, chk, o + 1, bor(v, shl(b, shift, w, chk)))

\* extract_unaligned_le without the mask of the last byte: every bit from
\* start to the end of the last touched byte.
extract_unaligned_le_unmasked(s, buf, chk) ==
    LET high == (s.start + s.width - 1) \div 8
    IN  IF rd(buf, high).p THEN Panic
        ELSE Val({i \in Bits(s.nwidth) :
                    /\ (s.start + i) \div 8 <= high
                    /\ ((s.start + i) % 8) \in buf[(s.start + i) \div 8 + 1]})

extract_unaligned_le(s, buf, chk) ==
    sign_extend(s, le_bytes(s, buf, chk, 0, Val({})), chk)

\* The generator's `left + 1 - rem` for a first byte with rem < 8: a usize
\* subtraction, which underflows when the field runs past bit 0 of the byte.
be_single_underflow(s) == s.width < 8 /\ (s.start % 8) + 1 < s.width

\* The statements extract_unaligned_be appends from `byte` on, `rem` bits
\* being left.  A negative shift stands for the wrapped usize 2^64 + shift.
RECURSIVE be_bytes(_, _, _, _, _, _)
be_bytes(s, buf, chk, rem, byte, v) ==
    LET low == s.start \div 8
        left == s.start % 8
        w == s.nwidth
    IN  IF rem <= 0 THEN v
        ELSE IF byte = low
        THEN LET v0 == rd(buf, byte)
             IN  IF rem < 8
                 THEN LET m == rem - 1
                          shift == left + 1 - rem
                          mask == bor(shl(lit1, m, w, chk),
                                      dec(shl(lit1, m, w, chk), w, s.signed, chk))
                      IN  band(shr(v0, shift, w, s.signed, chk), mask)
                 ELSE LET m == left
                          shift == rem - left - 1
                          mask == bor(shl(lit1, m, w, chk),
                                      dec(shl(lit1, m, w, chk), w, s.signed, chk))
                          v1 == IF m < 7 THEN shl(band(v0, mask), shift, w, chk)
                                ELSE shl(v0, shift, w, chk)
                      IN  be_bytes(s, buf, chk, rem - (left + 1), byte + 1, v1)
        ELSE IF rem < 8
        THEN bor(v, shr(rd(buf, byte), 8 - rem, w, s.signed, chk))
        ELSE be_bytes(s, buf, chk, rem - 8, byte + 1,
                      bor(v, shl(rd(buf, byte), rem - 8, w, chk)))

extract_unaligned_be(s, buf, chk) ==
    sign_extend(s, be_bytes(s, buf, chk, s.width, s.start \div 8, Val({})), chk)

bit_aligned(s) == IF is_le(s) THEN s.start % 8 = 0 ELSE s.start % 8 = 7

extract_bits(s, buf, chk) ==
    LET same_width == s.width = s.nwidth
        le == is_le(s)
    IN  IF same_width /\ bit_aligned(s) THEN extract_aligned(s, buf, le)
        ELSE IF le THEN extract_unaligned_le(s, buf, chk)
        ELSE extract_unaligned_be(s, buf, chk)

\* Field values: an integer field holds its bit set, a bool a BOOLEAN, an
\* f32 an [m, e].  gen_decoder: the value assigned to self.<name>, or Panic.
gen_decoder(s, buf, chk) ==
    IF s.width = 1
    THEN LET b == rd(buf, s.start \div 8)
         IN  IF b.p THEN Panic ELSE Val((s.start % 8) \in b.v)
    ELSE LET value == extract_bits(s, buf, chk)
         IN  IF value.p THEN Panic
             ELSE IF is_float(s)
             THEN Val(f32_add(f32_mul(int_as_f32(value.v, s.nwidth, s.signed), s.scale),
                              f64_as_f32(s.signal.offset)))
             ELSE value

\* A buffer being written, or the panic that stopped the writing (the bytes
\* written before it stay written).
St(buf) == [p |-> FALSE, buf |-> buf]

\* pdu[i] = b, with the bounds check.
wr(st, i, b) ==
    IF st.p THEN st
    ELSE IF b.p \/ (i + 1) \notin DOMAIN st.buf THEN [p |-> TRUE, buf |-> st.buf]
    ELSE [p |-> FALSE, buf |-> [st.buf EXCEPT ![i + 1] = b.v]]

\* wr_masked storing the masked value as the whole byte.
wr_whole_byte(st, i, mask, b) ==
    IF st.p THEN st ELSE wr(st, i, band(b, Val(mask)))

\* pdu[i] = (pdu[i] & !mask) | (b & mask)
wr_masked(st, i, mask, b) ==
    IF st.p THEN st
    ELSE wr(st, i, bor(band(rd(st.buf, i), Val(Bits(8) \ mask)),
                       band(b, Val(mask))))

\* gen_encoder, aligned branches: one whole byte per statement, from byte
\* `first`, the value shifted right by shift(k) for the k-th of them.
RECURSIVE enc_aligned(_, _, _, _, _, _)
enc_aligned(s, v, st, chk, le, k) ==
    LET n == s.nwidth \div 8
        first == IF le THEN s.start \div 8 ELSE (s.start - 7) \div 8
        shift == IF le THEN 8 * k ELSE s.nwidth - 8 - 8 * k
    IN  IF k >= n THEN st
        ELSE enc_aligned(s, v,
                 wr(st, first + k,
                    band(as_u8(shr(v, shift, s.nwidth, s.signed, chk)), Val(Bits(8)))),
                 chk, le, k + 1)

\* gen_encoder, unaligned little-endian loop.
RECURSIVE enc_unaligned_le(_, _, _, _, _, _, _, _)
enc_unaligned_le(s, v, st, chk, rem, lshift, rshift, byte) ==
    LET low == s.start \div 8
        left == s.start % 8
        w == s.nwidth
        part == as_u8(shl(shr(v, rshift, w, s.signed, chk), lshift, w, chk))
    IN  IF rem <= 0 THEN st
        ELSE IF rem < 8
        THEN LET mask == {i + lshift : i \in Bits(rem)} \cap Bits(8)
             IN  wr_masked(st, byte, mask, part)
        ELSE LET st1 == IF lshift # 0
                        THEN LET mask == {i + lshift : i \in Bits(8 - left)} \cap Bits(8)
                             IN  wr_masked(st, byte, mask, part)
                        ELSE wr(st, byte,
                                as_u8(band(shr(v, rshift, w, s.signed, chk), Val(Bits(8)))))
                 used == IF byte = low THEN 8 - left ELSE 8
             IN  enc_unaligned_le(s, v, st1, chk, rem - used, 0, rshift + used, byte + 1)

\* The value gen_encoder inserts: the field, or for a scaled signal
\* ((field - offset) / scale) as utype.
enc_value(s, field) ==
    IF is_float(s)
    THEN f32_as_int(f32_div(f32_sub(field, f64_as_f32(s.signal.offset)), s.scale),
                    s.nwidth, s.signed)
    ELSE field

\* The unaligned big-endian branch of gen_encoder emits no statement.
enc_unaligned_be(s, v, st) == st

\* gen_encoder: the buffer after the signal's statements ran on buf.
gen_encoder(s, field, buf, chk) ==
    LET low == s.start \div 8
        bit == s.start % 8
        left == s.start % 8
    IN  IF s.width = 1
        THEN wr_masked(St(buf), low, {bit}, Val(IF field THEN {bit} ELSE {}))
        ELSE LET v == Val(enc_value(s, field))
             IN  IF is_le(s)
                 THEN (IF s.width = s.nwidth /\ left = 0
                       THEN enc_aligned(s, v, St(buf), chk, TRUE, 0)
                       ELSE enc_unaligned_le(s, v, St(buf), chk, s.width, left, 0, low))
                 ELSE IF s.width = s.nwidth /\ left = 7
                 THEN enc_aligned(s, v, St(buf), chk, FALSE, 0)
                 ELSE enc_unaligned_be(s, v, St(buf))

----------------------------------------------------------------------------
(* Names.  A schema name is a sequence of characters (one-character        *)
(* strings); an identifier of the generated code is their concatenation.   *)

LowerCase == <<"a", "b", "c", "d", "e", "f", "g", "h", "i", "j", "k", "l", "m",
               "n", "o", "p", "q", "r", "s", "t", "u", "v", "w", "x", "y", "z">>
UpperCase == <<"A", "B", "C", "D", "E", "F", "G", "H", "I", "J", "K", "L", "M",
               "N", "O", "P", "Q", "R", "S", "T", "U", "V", "W", "X", "Y", "Z">>
Digits == {"0", "1", "2", "3", "4", "5", "6", "7", "8", "9"}

to_uppercase(c) ==
    IF \E i \in DOMAIN LowerCase : LowerCase[i] = c
    THEN UpperCase[CHOOSE i \in DOMAIN LowerCase : LowerCase[i] = c]
    ELSE c

is_alphanumeric(c) ==
    \/ \E i \in DOMAIN LowerCase : c \in {LowerCase[i], UpperCase[i]}
    \/ c \in Digits

\* The name of a value-table constant: "{name}_{description}" upper-cased,
\* keeping only alphanumeric characters and '_'.
sanitized(name, description) ==
    LET raw == name \o <<"_">> \o description
        up == [i \in DOMAIN raw |-> to_uppercase(raw[i])]
    IN  Join(SelectSeq(up, LAMBDA c : is_alphanumeric(c) \/ c = "_"))

----------------------------------------------------------------------------
(* message.rs and derive.rs: what the derive macro makes of the schema.    *)

None == [some |-> FALSE]

\* `v as usize` of a 64-bit integer: the bits of the usize (of 64 bits).
as_usize(v) == IF v >= 0 THEN BitsOf(v) ELSE Bits(64) \ BitsOf(-v - 1)

\* MessageInfo::message_attr_value
message_attr_value(d, id, name) ==
    LET hits == {i \in DOMAIN d.attribute_values_message :
                    /\ d.attribute_values_message[i].message_id = id
                    /\ d.attribute_values_message[i].name = name}
    IN  IF hits = {} THEN None
        ELSE LET attr == d.attribute_values_message[Min(hits)]
             IN  IF attr.value.kind \in {"Uint", "Int"}
                 THEN [some |-> TRUE, v |-> as_usize(attr.value.v)]
                 ELSE None

\* MessageInfo::new: the first schema message of that name.  dbc_signals is
\* the attribute's text split at ',' and trimmed, <<>> without the attribute.
MessageInfo_new(d, ident, dbc_signals) ==
    LET hits == {i \in DOMAIN d.messages : Join(d.messages[i].name) = ident}
    IN  IF hits = {} THEN None
        ELSE LET index == Min(hits)
                 message == d.messages[index]
             IN  [some |-> TRUE,
                  id |-> message.id.raw,
                  extended |-> message.id.kind = "Extended",
                  index |-> index,
                  ident |-> ident,
                  cycle_time |-> message_attr_value(d, message.id, "GenMsgCycleTime"),
                  signal_list |-> dbc_signals]

\* MessageInfo::use_signal
use_signal(message, name) ==
    IF message.signal_list = <<>> THEN TRUE
    ELSE \E i \in DOMAIN message.signal_list : message.signal_list[i] = name

\* `desc.id as u32`, for the ids >= 0 the schemas below hold.
id_as_u32(id) == BitsOf(id) \cap Bits(32)

\* const_ident with the scale and offset of the decoder applied.
const_ident_scaled(s, v) ==
    IF is_float(s)
    THEN f32_add(f32_mul(int_as_f32(v, 32, FALSE), s.scale), f64_as_f32(s.signal.offset))
    ELSE IF s.width = 1 THEN v # {}
    ELSE v \cap Bits(s.nwidth)

\* SignalInfo::const_ident of f64::from(desc.id as u32).
const_ident(s, v) ==
    IF is_float(s) THEN int_as_f32(v, 32, FALSE)
    ELSE IF s.width = 1 THEN v # {}
    ELSE v \cap Bits(s.nwidth)

\* DeriveData::from: every field's MessageInfo by identifier, or the error
\* of the first field that names no schema message.
DeriveData_from(d, fs) ==
    LET info(i) == MessageInfo_new(d, fs[i].ident, fs[i].dbc_signals)
        bad == {i \in DOMAIN fs : ~info(i).some}
        idents == {fs[i].ident : i \in DOMAIN fs}
        last(n) == Max({i \in DOMAIN fs : fs[i].ident = n})
    IN  IF bad # {} THEN [ok |-> FALSE, error |-> "Unknown message", at |-> Min(bad)]
        ELSE [ok |-> TRUE, messages |-> [n \in idents |-> info(last(n))]]

\* DeriveData::build, for one message: its selected signals in schema order,
\* its value-table constants and its constants.
build_message(d, message) ==
    LET m == d.messages[message.index]
        used == SelectSeq(m.signals, LAMBDA sg : use_signal(message, Join(sg.name)))
        infos == [i \in DOMAIN used |-> SignalInfo_new(used[i])]
        consts(i) == [j \in DOMAIN used[i].values |->
                        [name |-> sanitized(used[i].name, used[i].values[j].description),
                         type |-> infos[i].ntype,
                         value |-> const_ident(infos[i], id_as_u32(used[i].values[j].id))]]
        RECURSIVE all_consts(_)
        all_consts(i) ==
            IF i > Len(used) THEN <<>> ELSE consts(i) \o all_consts(i + 1)
    IN  [ident |-> message.ident,
         ID |-> message.id,
         EXTENDED |-> message.extended,
         dlc |-> m.size,
         DLC |-> m.size % 256,
         CYCLE_TIME |-> message.cycle_time,
         infos |-> infos,
         values |-> all_consts(1)]

\* Whether generating the signal's decoder or encoder overflows a usize of
\* the macro itself.
gen_overflows(s) ==
    /\ s.width # 1
    /\ ~(s.width = s.nwidth /\ bit_aligned(s))
    /\ ~is_le(s)
    /\ be_single_underflow(s)

\* Default::default() of a generated record.
default_value(s) ==
    IF s.ntype = "bool" THEN FALSE
    ELSE IF s.ntype = "f32" THEN F32Zero
    ELSE {}

default_fields(g) ==
    [n \in {g.infos[i].ident : i \in DOMAIN g.infos} |->
        default_value(g.infos[CHOOSE i \in DOMAIN g.infos : g.infos[i].ident = n])]

----------------------------------------------------------------------------
(* The generated decode and encode of one message g, on record flds.       *)

RECURSIVE run_decoders(_, _, _, _, _)
run_decoders(g, flds, buf, chk, i) ==
    IF i > Len(g.infos) THEN [ret |-> "true", fields |-> flds]
    ELSE LET r == gen_decoder(g.infos[i], buf, chk)
         IN  IF r.p THEN [ret |-> "panic", fields |-> flds]
             ELSE run_decoders(g, [flds EXCEPT ![g.infos[i].ident] = r.v],
                               buf, chk, i + 1)

\* decode without its length guard.
decode_unguarded(g, flds, buf, chk) == run_decoders(g, flds, buf, chk, 1)

decode(g, flds, buf, chk) ==
    IF Len(buf) # g.dlc THEN [ret |-> "false", fields |-> flds]
    ELSE run_decoders(g, flds, buf, chk, 1)

RECURSIVE run_encoders(_, _, _, _, _)
run_encoders(g, flds, buf, chk, i) ==
    IF i > Len(g.infos) THEN [ret |-> "true", pdu |-> buf]
    ELSE LET st == gen_encoder(g.infos[i], flds[g.infos[i].ident], buf, chk)
         IN  IF st.p THEN [ret |-> "panic", pdu |-> st.buf]
             ELSE run_encoders(g, flds, st.buf, chk, i + 1)

\* encode starting from a cleared buffer.
encode_cleared(g, flds, buf, chk) ==
    IF Len(buf) # g.dlc THEN [ret |-> "false", pdu |-> buf]
    ELSE run_encoders(g, flds, [i \in DOMAIN buf |-> {}], chk, 1)

encode(g, flds, buf, chk) ==
    IF Len(buf) # g.dlc THEN [ret |-> "false", pdu |-> buf]
    ELSE run_encoders(g, flds, buf, chk, 1)

\* The generated TryFrom<&[u8]>::try_from: Ok(pdu) or Err(()).
try_from(g, data, chk) ==
    LET r == decode(g, default_fields(g), data, chk)
    IN  IF r.ret = "panic" THEN [ret |-> "panic", made |-> None]
        ELSE IF r.ret = "true"
        THEN [ret |-> "ok", made |-> [some |-> TRUE, m |-> g.ident, fields |-> r.fields]]
        ELSE [ret |-> "err", made |-> None]

----------------------------------------------------------------------------
(* Bounds of the model.                                                    *)

MaxWidth == 64      \* signal widths of the generation-only specification
MaxNarrow == 3      \* widths 1..MaxNarrow are drawn for the codec ...
WidthSlack == 1     \* ... and those within WidthSlack of 8, 16, 32 and 64
MaxStart == 7       \* start bits 0..MaxStart
MaxScaledWidth == 9 \* widest scaled signal the codec is run on
MaxPattern == 3     \* buffer contents 0..MaxPattern
MaxFieldPat == 2    \* field contents 0..MaxFieldPat
MaxCalls == 2       \* decode/encode calls per run

----------------------------------------------------------------------------
(* Schemas.                                                                *)

Num(m, e) == Canon(m, e)

Signal(name, start_bit, size, byte_order, value_type, factor, offset, values) ==
    [name |-> name, start_bit |-> start_bit, size |-> size,
     byte_order |-> byte_order, value_type |-> value_type,
     factor |-> factor, offset |-> offset, values |-> values]

Standard(id) == [kind |-> "Standard", raw |-> id]
Extended(id) == [kind |-> "Extended", raw |-> id]

\* The schema of the crate documentation (SomeMessage) and what tests/test.rs
\* shows of MiscMessage of tests/test.dbc.
SomeMessage ==
    [name |-> <<"S", "o", "m", "e", "M", "e", "s", "s", "a", "g", "e">>,
     id |-> Standard(1023), size |-> 4,
     signals |-> <<
        Signal(<<"U", "n", "s", "i", "g", "n", "e", "d", "1", "6">>,
               16, 16, "BigEndian", "Unsigned", Num(1, 0), Num(0, 0), <<>>),
        Signal(<<"U", "n", "s", "i", "g", "n", "e", "d", "8">>,
               8, 8, "LittleEndian", "Unsigned", Num(1, 0), Num(0, 0), <<>>),
        Signal(<<"S", "i", "g", "n", "e", "d", "8">>,
               0, 8, "LittleEndian", "Signed", Num(1, 0), Num(0, 0), <<>>) >>]

MiscMessage ==
    [name |-> <<"M", "i", "s", "c", "M", "e", "s", "s", "a", "g", "e">>,
     id |-> Standard(8191), size |-> 2,
     signals |-> <<
        Signal(<<"B", "o", "o", "l", "_", "A">>, 0, 1, "LittleEndian", "Unsigned",
               Num(1, 0), Num(0, 0),
               << [id |-> 1, description |-> <<"O", "n">>],
                  [id |-> 0, description |-> <<"O", "f", "f">>] >>),
        Signal(<<"B", "o", "o", "l", "_", "B">>, 1, 1, "LittleEndian", "Unsigned",
               Num(1, 0), Num(0, 0), <<>>),
        Signal(<<"B", "o", "o", "l", "_", "H">>, 7, 1, "LittleEndian", "Unsigned",
               Num(1, 0), Num(0, 0), <<>>),
        Signal(<<"F", "l", "o", "a", "t", "_", "A">>, 8, 8, "LittleEndian", "Unsigned",
               Num(1, -1), Num(1, -2),
               << [id |-> 31415, description |-> <<"P", "I">>],
                  [id |-> 27182, description |-> <<"E">>] >>) >>]

\* AlignedLE and AlignedBE of tests/test.dbc, as the aligned tests show them.
AlignedLE ==
    [name |-> <<"A", "l", "i", "g", "n", "e", "d", "L", "E">>,
     id |-> Standard(1023), size |-> 8,
     signals |-> <<
        Signal(<<"S", "i", "g", "n", "e", "d", "8">>,
               0, 8, "LittleEndian", "Signed", Num(1, 0), Num(0, 0), <<>>),
        Signal(<<"U", "n", "s", "i", "g", "n", "e", "d", "8">>,
               8, 8, "LittleEndian", "Unsigned", Num(1, 0), Num(0, 0), <<>>),
        Signal(<<"U", "n", "s", "i", "g", "n", "e", "d", "1", "6">>,
               16, 16, "LittleEndian", "Unsigned", Num(1, 0), Num(0, 0), <<>>),
        Signal(<<"U", "n", "s", "i", "g", "n", "e", "d", "3", "2">>,
               32, 32, "LittleEndian", "Unsigned", Num(1, 0), Num(0, 0), <<>>) >>]

AlignedBE ==
    [name |-> <<"A", "l", "i", "g", "n", "e", "d", "B", "E">>,
     id |-> Standard(1022), size |-> 8,
     signals |-> <<
        Signal(<<"S", "i", "g", "n", "e", "d", "8">>,
               7, 8, "BigEndian", "Signed", Num(1, 0), Num(0, 0), <<>>),
        Signal(<<"U", "n", "s", "i", "g", "n", "e", "d", "8">>,
               15, 8, "BigEndian", "Unsigned", Num(1, 0), Num(0, 0), <<>>),
        Signal(<<"U", "n", "s", "i", "g", "n", "e", "d", "1", "6">>,
               23, 16, "BigEndian", "Unsigned", Num(1, 0), Num(0, 0), <<>>),
        Signal(<<"U", "n", "s", "i", "g", "n", "e", "d", "3", "2">>,
               39, 32, "BigEndian", "Unsigned", Num(1, 0), Num(0, 0), <<>>) >>]

\* A message whose aligned signals leave bytes 0, 1, 4 and 7 to no signal.
GapMessage ==
    [name |-> <<"G", "a", "p", "M", "e", "s", "s", "a", "g", "e">>,
     id |-> Extended(74565), size |-> 8,
     signals |-> <<
        Signal(<<"L", "o", "w">>,
               16, 16, "LittleEndian", "Unsigned", Num(1, 0), Num(0, 0), <<>>),
        Signal(<<"H", "i", "g", "h">>,
               47, 16, "BigEndian", "Signed", Num(1, 0), Num(0, 0), <<>>) >>]

\* A message of three bytes with single-bit signals in its second and third.
BitMessage ==
    [name |-> <<"B", "i", "t", "M", "e", "s", "s", "a", "g", "e">>,
     id |-> Standard(512), size |-> 3,
     signals |-> <<
        Signal(<<"F", "l", "a", "g", "_", "L">>,
               9, 1, "LittleEndian", "Unsigned", Num(1, 0), Num(0, 0), <<>>),
        Signal(<<"F", "l", "a", "g", "_", "M">>,
               22, 1, "BigEndian", "Signed", Num(1, 0), Num(0, 0), <<>>) >>]

BitDbc == [messages |-> <<BitMessage>>, attribute_values_message |-> <<>>]

GapDbc == [messages |-> <<GapMessage>>, attribute_values_message |-> <<>>]

\* A schema with a message longer than 255 bytes (a multi-packet message),
\* whose cycle time is a signed attribute value, and a one-byte message whose
\* cycle time attribute is negative.
WideMessage ==
    [name |-> <<"W", "i", "d", "e", "M", "e", "s", "s", "a", "g", "e">>,
     id |-> Extended(419361024), size |-> 300,
     signals |-> <<
        Signal(<<"F", "i", "r", "s", "t">>,
               0, 8, "LittleEndian", "Unsigned", Num(1, 0), Num(0, 0), <<>>) >>]

NegMessage ==
    [name |-> <<"N", "e", "g", "M", "e", "s", "s", "a", "g", "e">>,
     id |-> Standard(77), size |-> 1,
     signals |-> <<
        Signal(<<"F", "i", "r", "s", "t">>,
               0, 8, "LittleEndian", "Unsigned", Num(1, 0), Num(0, 0), <<>>) >>]

WideDbc ==
    [messages |-> <<WideMessage, NegMessage>>,
     attribute_values_message |->
        << [message_id |-> Extended(419361024), name |-> "GenMsgCycleTime",
            value |-> [kind |-> "Int", v |-> 2000]],
           [message_id |-> Standard(77), name |-> "GenMsgCycleTime",
            value |-> [kind |-> "Int", v |-> -1]] >>]

TestDbc ==
    [messages |-> <<SomeMessage, MiscMessage, AlignedLE, AlignedBE>>,
     attribute_values_message |->
        << [message_id |-> Standard(8191), name |-> "GenMsgCycleTime",
            value |-> [kind |-> "Uint", v |-> 100]] >>]

\* The bytes a signal occupies, counted from byte 0 of the frame.
Needed(sg) ==
    LET low == sg.start_bit \div 8
        left == sg.start_bit % 8
    IN  IF sg.byte_order = "LittleEndian"
        THEN (sg.start_bit + sg.size - 1) \div 8 + 1
        ELSE IF sg.size > left + 1
        THEN low + 1 + (sg.size - left - 1 + 7) \div 8
        ELSE low + 1

\* A schema of one message, Probe, with the one signal Sig in a frame just
\* long enough for it.
ProbeDbc(sg) ==
    [messages |-> << [name |-> <<"P", "r", "o", "b", "e">>, id |-> Standard(256),
                      size |-> Needed(sg), signals |-> <<sg>>] >>,
     attribute_values_message |-> <<>>]

Sig(start_bit, size, byte_order, value_type, factor, offset, values) ==
    Signal(<<"S", "i", "g">>, start_bit, size, byte_order, value_type,
           factor, offset, values)

ByteOrders == {"LittleEndian", "BigEndian"}
ValueTypes == {"Signed", "Unsigned"}

Field(ident, dbc_signals) == [ident |-> ident, dbc_signals |-> dbc_signals]

Case(d, fs) == [dbc |-> d, input |-> fs]

ProbeCase(sg) == Case(ProbeDbc(sg), <<Field("Probe", <<>>)>>)

CodecWidths ==
    {w \in 1 .. 64 : w <= MaxNarrow
                     \/ \E b \in {8, 16, 32, 64} : Abs(w - b) <= WidthSlack}

\* Scale and offset of the scaled probes: 0.25 and 10.0, 0.5 and 0.25, and
\* an offset without a scale.
Scalings == { <<Num(1, -2), Num(10, 0)>>, <<Num(1, -1), Num(1, -2)>>,
              <<Num(1, 0), Num(10, 0)>> }

\* The schemas and requests the codec is run on.
RunCases ==
    { Case(TestDbc, <<Field("SomeMessage", <<>>)>>),
      Case(TestDbc, <<Field("MiscMessage", <<"Bool_A", "Bool_H", "Float_A">>)>>),
      Case(TestDbc, <<Field("AlignedLE", <<>>)>>),
      Case(TestDbc, <<Field("AlignedBE", <<>>)>>),
      Case(TestDbc, <<Field("MiscMessage", <<"Bool_A", "Bool_H">>)>>),
      Case(GapDbc, <<Field("GapMessage", <<>>)>>),
      Case(BitDbc, <<Field("BitMessage", <<>>)>>),
      Case(WideDbc, <<Field("WideMessage", <<>>), Field("NegMessage", <<>>)>>) }
    \cup { ProbeCase(Sig(st, w, bo, vt, Num(1, 0), Num(0, 0), <<>>)) :
             st \in 0 .. MaxStart, w \in CodecWidths,
             bo \in ByteOrders, vt \in ValueTypes }
    \cup { ProbeCase(Sig(IF bo = "LittleEndian" THEN 0 ELSE 7, w, bo, vt,
                         sc[1], sc[2], <<>>)) :
             w \in {x \in CodecWidths : x \in 2 .. MaxScaledWidth},
             bo \in ByteOrders, vt \in ValueTypes, sc \in Scalings }

\* Factors 1.0, 0.25, 2.5 and 1 + 2^-30 (which `as f32` rounds to 1.0), and
\* offsets 0.0 and 10.0.
Factors == {Num(1, 0), Num(1, -2), Num(5, -1), Num(Pow2(30) + 1, -30)}
Offsets == {Num(0, 0), Num(10, 0)}

GenStarts == {0, 3, 7}

\* A value table whose raw values are a bit, the sign bit of a 3-bit field,
\* and values over the range of 8 and of 16 bits.
SampleValues ==
    << [id |-> 1, description |-> <<"O", "n">>],
       [id |-> 0, description |-> <<"O", "f", "f">>],
       [id |-> 7, description |-> <<"t", "o", "p", " ", "3">>],
       [id |-> 200, description |-> <<"B", "i", "g", "-", "V", "a", "l">>],
       [id |-> 70000, description |-> <<"W", "i", "d", "e">>] >>

\* A value table with two descriptions that differ in case only, and one
\* that differs from SampleValues' "top 3" in a dropped character.
CollidingValues ==
    << [id |-> 1, description |-> <<"O", "n">>],
       [id |-> 2, description |-> <<"o", "n">>],
       [id |-> 3, description |-> <<"t", "o", "p", "-", "3">>] >>

RequestIdents == {"SomeMessage", "MiscMessage", "NoMessage"}
RequestFilters ==
    { <<>>, <<"Bool_A">>, <<"Bool_A", "Float_A">>, <<"NoSignal">>,
      <<"Bool_A", "NoSignal">> }
Requests == {Field(n, f) : n \in RequestIdents, f \in RequestFilters}

\* The schemas and requests the derive macro alone is run on: every width
\* with every factor and offset, and requests that name what the schema has
\* and what it has not.
GenCases ==
    { ProbeCase(Sig(st, w, bo, vt, fa, of, SampleValues)) :
        st \in GenStarts, w \in 1 .. MaxWidth, bo \in ByteOrders,
        vt \in ValueTypes, fa \in Factors, of \in Offsets }
    \cup { Case(TestDbc, <<r>>) : r \in Requests }
    \cup { Case(TestDbc, <<r, q>>) : r \in Requests, q \in Requests }
    \cup { ProbeCase(Sig(0, w, "LittleEndian", vt, fa, Num(0, 0), tb)) :
             w \in {1, 8}, vt \in ValueTypes, fa \in Factors,
             tb \in {CollidingValues, SampleValues \o CollidingValues} }

----------------------------------------------------------------------------
(* Inputs of the runtime: buffer and field contents.                       *)

\* Bit k of a buffer of pattern q: all zero, all one, 0x80 in every byte,
\* 0x55/0xAA alternating, then stripes of period q.
Pat(q, k) ==
    CASE q = 0 -> FALSE
      [] q = 1 -> TRUE
      [] q = 2 -> k % 8 = 7
      [] q = 3 -> (k + k \div 8) % 2 = 0
      [] OTHER -> k % q = 1

PatBuffer(q, len) == [i \in 1 .. len |-> {b \in Bits(8) : Pat(q, 8 * (i - 1) + b)}]

Bytes(ns) == [i \in DOMAIN ns |-> BitsOf(ns[i])]

\* The frame of the crate documentation.
DocFrame == Bytes(<<254, 52, 86, 120>>)

\* A frame whose one byte is 100.
ScaleFrame == Bytes(<<100>>)

\* The frame of the aligned little-endian test.
AlignedFrame == Bytes(<<254, 85, 1, 32, 52, 86, 120, 154>>)

\* The buffers a caller hands to a message of d bytes: every pattern at the
\* right length, zeros and ones one byte short and one byte long, the
\* documented frame and the scale frame where their length is one of these,
\* and the frame of the aligned test at its own length.
Buffers(d) ==
    {PatBuffer(q, d) : q \in 0 .. MaxPattern}
    \cup {PatBuffer(q, len) : q \in 0 .. 1, len \in {d - 1, d + 1} \cap Nat}
    \cup {b \in {DocFrame, ScaleFrame} : Len(b) \in {d - 1, d, d + 1}}
    \cup {b \in {AlignedFrame} : Len(b) = d}

\* Field content p of a signal: an integer field's raw pattern (all ones,
\* 0x55.., then a value that does not fit the signal's width or stripes),
\* sign-extended for a signed signal.
FieldSample(p, s) ==
    IF s.ntype = "bool" THEN p % 2 = 0
    ELSE IF s.ntype = "f32"
    THEN (CASE p = 0 -> Num(83, -2) [] p = 1 -> Num(-3, -1)
            [] p = 2 -> Num(1, 40) [] OTHER -> Num(p, -2))
    ELSE LET raw == CASE p = 0 -> Bits(s.width)
                      [] p = 1 -> {i \in Bits(s.width) : i % 2 = 0}
                      [] p = 2 -> Bits(s.nwidth) \ {0, s.width - 1}
                      [] OTHER -> {i \in Bits(s.width) : i % p = 1}
         IN  IF p # 2 /\ s.signed /\ (s.width - 1) \in raw
             THEN raw \cup (Bits(s.nwidth) \ Bits(s.width))
             ELSE raw

----------------------------------------------------------------------------
(* The state machine.                                                      *)

NoOp == [f |-> "none", m |-> ""]

InitWith(cases) ==
    /\ \E c \in cases : dbc = c.dbc /\ input = c.input
    /\ checked \in BOOLEAN
    /\ gen = "pending"
    /\ out = <<>>
    /\ fields = <<>>
    /\ pdu = <<>>
    /\ pre = <<>>
    /\ op = NoOp
    /\ ret = "none"
    /\ calls = 0
    /\ made = None

Init == InitWith(RunCases)

\* The derive macro: DeriveData::from, then build.  A panic of the macro and
\* its error both end the compilation without a codec.
Generate ==
    /\ gen = "pending"
    /\ LET r == DeriveData_from(dbc, input)
           built == [n \in DOMAIN r.messages |-> build_message(dbc, r.messages[n])]
       IN  IF ~r.ok
           THEN gen' = "error" /\ out' = <<>> /\ fields' = <<>>
           ELSE IF checked /\ \E n \in DOMAIN built : \E i \in DOMAIN built[n].infos :
                                 gen_overflows(built[n].infos[i])
           THEN gen' = "panic" /\ out' = <<>> /\ fields' = <<>>
           ELSE /\ gen' = "ok"
                /\ out' = built
                /\ fields' = [n \in DOMAIN built |-> default_fields(built[n])]
    /\ UNCHANGED <<dbc, input, checked, pdu, pre, op, ret, calls, made>>

InfoOf(g, k) == g.infos[CHOOSE i \in DOMAIN g.infos : g.infos[i].ident = k]

\* The caller assigns the fields of message n.
SetFields(n, p) ==
    /\ gen = "ok" /\ calls = 0
    /\ fields' = [fields EXCEPT ![n] =
                    [k \in DOMAIN fields[n] |-> FieldSample(p, InfoOf(out[n], k))]]
    /\ UNCHANGED <<dbc, input, checked, gen, out, pdu, pre, op, ret, calls, made>>

\* The caller fills a buffer.
LoadBuffer(b) ==
    /\ gen = "ok" /\ calls = 0
    /\ pdu' = b
    /\ UNCHANGED <<dbc, input, checked, gen, out, fields, pre, op, ret, calls, made>>

\* n.decode(&pdu)
Decode(n) ==
    /\ gen = "ok" /\ calls < MaxCalls /\ ret # "panic"
    /\ LET r == decode(out[n], fields[n], pdu, checked)
       IN  /\ fields' = [fields EXCEPT ![n] = r.fields]
           /\ ret' = r.ret
    /\ op' = [f |-> "decode", m |-> n]
    /\ pre' = pdu
    /\ calls' = calls + 1
    /\ UNCHANGED <<dbc, input, checked, gen, out, pdu, made>>

\* n.encode(&mut pdu)
Encode(n) ==
    /\ gen = "ok" /\ calls < MaxCalls /\ ret # "panic"
    /\ LET r == encode(out[n], fields[n], pdu, checked)
       IN  /\ pdu' = r.pdu
           /\ ret' = r.ret
    /\ op' = [f |-> "encode", m |-> n]
    /\ pre' = pdu
    /\ calls' = calls + 1
    /\ UNCHANGED <<dbc, input, checked, gen, out, fields, made>>

\* n::try_from(&pdu).  It reads the buffer alone and makes a record of its
\* own, so it is taken as the first call on the buffer the caller filled.
TryFrom(n) ==
    /\ gen = "ok" /\ calls = 0
    /\ LET r == try_from(out[n], pdu, checked)
       IN  /\ made' = r.made
           /\ ret' = r.ret
    /\ op' = [f |-> "try_from", m |-> n]
    /\ pre' = pdu
    /\ calls' = calls + 1
    /\ UNCHANGED <<dbc, input, checked, gen, out, fields, pdu>>

Next ==
    \/ Generate
    \/ \E n \in DOMAIN out : \E p \in 0 .. MaxFieldPat : SetFields(n, p)
    \/ \E n \in DOMAIN out : \E b \in Buffers(out[n].dlc) : LoadBuffer(b)
    \/ \E n \in DOMAIN out : Decode(n)
    \/ \E n \in DOMAIN out : Encode(n)
    \/ \E n \in DOMAIN out : TryFrom(n)

Spec == Init /\ [][Next]_vars

\* The derive macro alone, on the wider set of schemas.
InitGen == InitWith(GenCases)

NextGen == Generate

SpecGen == InitGen /\ [][NextGen]_vars

----------------------------------------------------------------------------
(* Properties.                                                             *)

Called == calls > 0 /\ op.f \in {"decode", "encode"}

\* The message of the last call, and whether all its selected signals lie
\* within its bytes.
Target == out[op.m]
AllFit(g) == \A i \in DOMAIN g.infos : Needed(g.infos[i].signal) <= g.dlc

\* C1: a decode or encode call, at any place in a sequence of calls, whose
\* buffer length differs from the message's byte length returns false and
\* leaves every field of the record and every byte of the buffer as it was.
C1_LengthGuard ==
    [][ (calls' = calls + 1 /\ op'.f \in {"decode", "encode"}
            /\ Len(pdu) # out[op'.m].dlc)
            => (ret' = "false" /\ fields' = fields /\ pdu' = pdu) ]_vars

\* C1's case: a second call, on a record whose fields were set and a buffer
\* that is not empty, was refused for its length.
C1_Witness ==
    /\ Called /\ calls = 2 /\ op.f = "decode" /\ ret = "false"
    /\ Len(pre) = Target.dlc + 1
    /\ \E i \in DOMAIN Target.infos :
          /\ Target.infos[i].ntype = "u8"
          /\ fields[op.m][Target.infos[i].ident] = Bits(8)
    /\ pdu = pre /\ pdu[1] = Bits(8)

\* C2: on a message whose selected signals all lie within its bytes, decode
\* and encode of a buffer of exactly that length return true (no panic, no
\* access past the buffer), whatever the buffer and the fields hold.
C2_ExactLengthSucceeds ==
    (Called /\ AllFit(Target) /\ Len(pre) = Target.dlc) => ret = "true"

\* C2's failing case: a call on a right-sized buffer of a message whose
\* signals all fit panicked.
C2_Panics ==
    Called /\ AllFit(Target) /\ Len(pre) = Target.dlc /\ ret = "panic"

IntegerTyped(s) == s.ntype \notin {"bool", "f32"}

\* v, held in s's storage type, is a raw value of s's bit width: zero-extended
\* for an unsigned signal, sign-extended for a signed one.
Representable(s, v) ==
    LET high == Bits(s.nwidth) \ Bits(s.width)
    IN  IF s.signed /\ (s.width - 1) \in v THEN high \subseteq v
        ELSE high \cap v = {}

\* The last call encoded raw values of the integer-typed signals of a
\* message whose signals all fit into an all-zero buffer of its length.
EncodedZero ==
    /\ Called /\ op.f = "encode"
    /\ AllFit(Target)
    /\ pre = PatBuffer(0, Target.dlc)
    /\ \E i \in DOMAIN Target.infos : IntegerTyped(Target.infos[i])
    /\ \A i \in DOMAIN Target.infos :
          IntegerTyped(Target.infos[i])
              => Representable(Target.infos[i], fields[op.m][Target.infos[i].ident])

RECURSIVE Ones(_)
Ones(buf) == IF buf = <<>> THEN 0 ELSE Cardinality(Head(buf)) + Ones(Tail(buf))

\* C3: for every integer-typed signal and every raw value of its bit width,
\* setting the field, encoding into an all-zero buffer of the message's
\* length and decoding that buffer yields the same value.
C3_RoundTrip ==
    [][ /\ EncodedZero' => ret' = "true"
        /\ (EncodedZero /\ calls' = calls + 1 /\ op' = [f |-> "decode", m |-> op.m])
              => /\ ret' = "true"
                 /\ \A i \in DOMAIN Target.infos :
                       IntegerTyped(Target.infos[i])
                           => fields'[op.m][Target.infos[i].ident]
                                = fields[op.m][Target.infos[i].ident] ]_vars

\* C3's failing case: encode of an unsigned little-endian field of all ones
\* into a zeroed buffer returned true and wrote fewer one bits than the
\* signal is wide.
C3_BitsLost ==
    /\ EncodedZero /\ ret = "true"
    /\ \E i \in DOMAIN Target.infos :
          LET s == Target.infos[i]
          IN  /\ IntegerTyped(s) /\ is_le(s) /\ ~s.signed
              /\ fields[op.m][s.ident] = Bits(s.width)
              /\ Ones(pdu) < s.width

\* C4: decode of [0xFE, 0x34, 0x56, 0x78] by the documented example message
\* returns true and sets Signed8 = -2, Unsigned8 = 0x34, Unsigned16 = 0x5678.
C4_DocumentedExample ==
    (Called /\ op = [f |-> "decode", m |-> "SomeMessage"] /\ pre = DocFrame)
        => /\ ret = "true"
           /\ fields["SomeMessage"]["Signed8"] = BitsOf(254)
           /\ fields["SomeMessage"]["Unsigned8"] = BitsOf(52)
           /\ fields["SomeMessage"]["Unsigned16"] = BitsOf(22136)

\* C4's failing case: that decode panicked.
C4_ExamplePanics ==
    /\ Called /\ op = [f |-> "decode", m |-> "SomeMessage"] /\ pre = DocFrame
    /\ ret = "panic"

\* A non-boolean big-endian signal that is not byte-aligned.
UnalignedBE(s) ==
    /\ s.width # 1
    /\ s.signal.byte_order = "BigEndian"
    /\ (s.width # s.nwidth \/ s.start % 8 # 7)

\* C5: a codec for a message with a selected unaligned big-endian signal is
\* rejected at generation time, so that no encode returns true and leaves
\* that signal's bits unwritten.
C5_UnalignedBERejected ==
    /\ gen = "ok" => \A n \in DOMAIN out : \A i \in DOMAIN out[n].infos :
                        ~UnalignedBE(out[n].infos[i])
    /\ ~(/\ Called /\ op.f = "encode" /\ ret = "true"
         /\ \E i \in DOMAIN Target.infos : UnalignedBE(Target.infos[i])
         /\ pdu = pre)

\* C5's failing case: encode of a nonzero unaligned big-endian field returned
\* true and left the zeroed buffer as it was.
C5_SilentlyUnwritten ==
    /\ Called /\ op.f = "encode" /\ ret = "true"
    /\ Len(Target.infos) = 1 /\ UnalignedBE(Target.infos[1])
    /\ IntegerTyped(Target.infos[1])
    /\ fields[op.m][Target.infos[1].ident] = Bits(Target.infos[1].width)
    /\ pre = PatBuffer(0, Target.dlc) /\ pdu = pre

Generated == gen = "ok"

\* The schema message a requested field names, and whether the request names
\* something the schema does not have.
SchemaMessages(f) == {i \in DOMAIN dbc.messages : Join(dbc.messages[i].name) = f.ident}
SchemaSignals(f) ==
    LET m == dbc.messages[Min(SchemaMessages(f))]
    IN  {Join(m.signals[i].name) : i \in DOMAIN m.signals}
Mismatch(f) ==
    \/ SchemaMessages(f) = {}
    \/ \E k \in DOMAIN f.dbc_signals : f.dbc_signals[k] \notin SchemaSignals(f)

\* C6: when a requested message name has no schema message, or a selection
\* filter names a signal its schema message does not have, generation fails
\* with an error and produces no codec.
C6_SchemaMismatchFatal ==
    (gen # "pending" /\ \E k \in DOMAIN input : Mismatch(input[k]))
        => (gen = "error" /\ DOMAIN out = {})

\* C6's failing case: a codec was generated for a request whose filter names
\* a signal the schema message does not have.
C6_UnknownSignalSkipped ==
    /\ Generated
    /\ input = <<Field("MiscMessage", <<"Bool_A", "NoSignal">>)>>
    /\ Len(out["MiscMessage"].infos) = 1
    /\ out["MiscMessage"].infos[1].ident = "Bool_A"

\* The selected signals of the generated messages.
SignalsOf == UNION {{<<n, i>> : i \in DOMAIN out[n].infos} : n \in DOMAIN out}
AllInfos == {out[x[1]].infos[x[2]] : x \in SignalsOf}

StorageWidths == {8, 16, 32, 64}

\* The scale of a signal as the 32-bit float it is compared and applied as.
Scale(s) == f64_as_f32(s.signal.factor)

C8_SingleBitIsBool ==
    \A s \in AllInfos :
        s.signal.size = 1 => (s.utype = "bool" /\ s.ntype = "bool")

\* C8's failing case: a single-bit signal with scale 0.25 got the native
\* type f32.
C8_ScaledBitIsFloat ==
    /\ Generated
    /\ \E s \in AllInfos :
          s.signal.size = 1 /\ s.signal.factor = Num(1, -2) /\ s.ntype = "f32"

\* The raw value the last decode assembled for s, and what it left in the
\* field, both as the 32-bit float of that number.
RawF32(s) == int_as_f32(extract_bits(s, pre, checked).v, s.nwidth, s.signed)
FieldF32(s) ==
    IF s.ntype = "f32" THEN fields[op.m][s.ident]
    ELSE int_as_f32(fields[op.m][s.ident], s.nwidth, s.signed)

Decoded == Called /\ op.f = "decode" /\ ret = "true"

\* C9: for every non-boolean signal decode stores raw * scale + offset, for
\* every scale and offset, also scale 1.0 with an offset (raw + offset); it
\* stores 35.0 for scale 0.25, offset 10.0 and unsigned raw 100.
C9_ScaleOffset ==
    Decoded =>
        \A i \in DOMAIN Target.infos :
            LET s == Target.infos[i]
            IN  s.width # 1 =>
                  FieldF32(s) = f32_add(f32_mul(RawF32(s), Scale(s)),
                                        f64_as_f32(s.signal.offset))

\* C9's failing case: with scale 1.0 and offset 10.0, raw 100 was decoded to
\* the integer 100.
C9_OffsetDropped ==
    /\ Decoded /\ pre = ScaleFrame
    /\ \E i \in DOMAIN Target.infos :
          LET s == Target.infos[i]
          IN  /\ s.signal.factor = F32One /\ s.signal.offset = Num(10, 0)
              /\ s.ntype = "u8"
              /\ fields[op.m][s.ident] = BitsOf(100)

\* The constants of g that come from the value table of its i-th signal.
RECURSIVE ConstsBefore(_, _)
ConstsBefore(g, i) ==
    IF i = 1 THEN 0 ELSE ConstsBefore(g, i - 1) + Len(g.infos[i - 1].signal.values)
ConstOf(g, i, j) == g.values[ConstsBefore(g, i) + j]

TableEntries ==
    UNION {{<<x[1], x[2], j>> : j \in DOMAIN out[x[1]].infos[x[2]].signal.values} :
              x \in SignalsOf}

ByTryFrom == calls > 0 /\ op.f = "try_from"

\* C11: building a message from a byte slice succeeds iff the slice has the
\* message's byte length; the result then is a default-initialised message
\* after decode of the slice, and otherwise an error and no instance.
C11_TryFrom ==
    ByTryFrom =>
        IF Len(pre) = Target.dlc
        THEN /\ ret = "ok"
             /\ made = [some |-> TRUE, m |-> op.m,
                        fields |-> decode(Target, default_fields(Target),
                                          pre, checked).fields]
        ELSE ret = "err" /\ made = None

\* C11's failing case: try_from of a slice of the message's length, on a
\* message whose signals all fit, panicked and returned nothing.
C11_TryFromPanics ==
    /\ ByTryFrom /\ AllFit(Target) /\ Len(pre) = Target.dlc
    /\ ret = "panic" /\ made = None

Encoded == Called /\ op.f = "encode" /\ ret = "true"

\* An unscaled signal of width 8, 16, 32 or 64 on a byte boundary of its
\* byte order.
AlignedSignal(s) ==
    /\ IntegerTyped(s)
    /\ s.signal.size \in StorageWidths
    /\ s.signal.start_bit % 8 = (IF s.signal.byte_order = "LittleEndian" THEN 0 ELSE 7)

\* The bytes of an aligned signal, and the integer they spell in its byte
\* order: bit i of it is bit i % 8 of the byte of significance i \div 8.
AlignedBytes(s) ==
    {s.signal.start_bit \div 8 + k : k \in 0 .. (s.signal.size \div 8 - 1)}
AlignedValue(s, buf) ==
    LET low == s.signal.start_bit \div 8
        n == s.signal.size \div 8
        byte(i) == IF s.signal.byte_order = "LittleEndian"
                   THEN low + i \div 8 ELSE low + (n - 1 - i \div 8)
    IN  {i \in Bits(s.signal.size) : (i % 8) \in buf[byte(i) + 1]}

TargetSignals == {Target.infos[i] : i \in DOMAIN Target.infos}

\* C12: decode of an aligned signal yields the integer its width/8 bytes from
\* byte start_bit/8 spell in its byte order, and encode writes exactly those
\* bytes so that they spell the field; the little-endian test frame gives
\* Signed8 = -2, Unsigned8 = 0x55, Unsigned16 = 0x2001, Unsigned32 = 0x9A785634.
C12_Aligned ==
    /\ Decoded =>
          \A s \in TargetSignals :
              AlignedSignal(s) => fields[op.m][s.ident] = AlignedValue(s, pre)
    /\ Encoded =>
          /\ \A s \in TargetSignals :
                AlignedSignal(s) => AlignedValue(s, pdu) = fields[op.m][s.ident]
          /\ (\A s \in TargetSignals : AlignedSignal(s)) =>
                \A k \in DOMAIN pdu :
                    (\A s \in TargetSignals : (k - 1) \notin AlignedBytes(s))
                        => pdu[k] = pre[k]
    /\ (Called /\ Len(pre) = Target.dlc /\ AllFit(Target)
            /\ \A s \in TargetSignals : AlignedSignal(s))
          => ret = "true"
    /\ (Called /\ op = [f |-> "decode", m |-> "AlignedLE"] /\ pre = AlignedFrame)
          => /\ ret = "true"
             /\ fields["AlignedLE"]["Signed8"] = BitsOf(254)
             /\ fields["AlignedLE"]["Unsigned8"] = BitsOf(85)
             /\ fields["AlignedLE"]["Unsigned16"] = BitsOf(8193)
             /\ fields["AlignedLE"]["Unsigned32"]
                  = {16 + i : i \in BitsOf(39544)} \cup BitsOf(22068)

\* C12's case: the little-endian test frame was decoded, and a big-endian
\* 16-bit field was encoded between bytes of no signal.
C12_Witness ==
    \/ /\ Decoded /\ op.m = "AlignedLE" /\ pre = AlignedFrame
       /\ fields["AlignedLE"]["Unsigned16"] = BitsOf(8193)
    \/ /\ Encoded /\ op.m = "GapMessage" /\ pre = PatBuffer(1, 8)
       /\ fields["GapMessage"]["High"] = {i \in Bits(16) : i % 2 = 0}
       /\ pdu[6] = BitsOf(85) /\ pdu[7] = BitsOf(85) /\ pdu[8] = Bits(8)

\* A signal whose field is a bool, and the frame bit it is kept in.
BoolSignal(s) == s.signal.size = 1 /\ s.ntype = "bool"
BitOf(s, buf) == (s.signal.start_bit % 8) \in buf[s.signal.start_bit \div 8 + 1]

\* C13: decode sets a single-bit signal's field to true iff bit start_bit % 8
\* of byte start_bit / 8 is 1; encode makes that bit the field and leaves the
\* other seven bits of the byte and every other byte as they were.
C13_SingleBit ==
    /\ Decoded =>
          \A s \in TargetSignals :
              BoolSignal(s) => fields[op.m][s.ident] = BitOf(s, pre)
    /\ Encoded =>
          /\ \A s \in TargetSignals :
                BoolSignal(s) => BitOf(s, pdu) = fields[op.m][s.ident]
          /\ (\A s \in TargetSignals : BoolSignal(s)) =>
                \A k \in DOMAIN pdu : \A b \in Bits(8) :
                    (\A s \in TargetSignals : s.signal.start_bit # 8 * (k - 1) + b)
                        => (b \in pdu[k] <=> b \in pre[k])
    /\ (Called /\ Len(pre) = Target.dlc /\ \A s \in TargetSignals : BoolSignal(s))
          => ret = "true"

\* C13's case: a false field was encoded over a set bit of the third byte of
\* a frame of ones, which cleared that bit alone.
C13_Witness ==
    /\ Encoded /\ op.m = "BitMessage" /\ pre = PatBuffer(1, 3)
    /\ ~fields["BitMessage"]["Flag_M"] /\ ~fields["BitMessage"]["Flag_L"]
    /\ pdu = <<Bits(8), Bits(8) \ {1}, Bits(8) \ {6}>>

\* The schema message a generated message was made from, and the cycle times
\* the schema gives it.
SchemaOf(n) ==
    dbc.messages[Min({i \in DOMAIN dbc.messages : Join(dbc.messages[i].name) = n})]
CycleTimes(m) ==
    {dbc.attribute_values_message[i].value.v :
        i \in {j \in DOMAIN dbc.attribute_values_message :
                 /\ dbc.attribute_values_message[j].message_id = m.id
                 /\ dbc.attribute_values_message[j].name = "GenMsgCycleTime"
                 /\ dbc.attribute_values_message[j].value.kind \in {"Uint", "Int"}}}

\* C14: ID is the schema message's numeric id, EXTENDED says whether that id
\* is an extended one, DLC is the message's byte length, which is the length
\* decode and encode accept, and CYCLE_TIME exists iff the schema gives the
\* message a cycle time, and then equals it.
C14_Constants ==
    gen = "ok" =>
        /\ \A n \in DOMAIN out :
              LET m == SchemaOf(n)
                  c == CycleTimes(m)
              IN  /\ out[n].ID = m.id.raw
                  /\ out[n].EXTENDED = (m.id.kind = "Extended")
                  /\ out[n].DLC = m.size
                  /\ out[n].CYCLE_TIME.some <=> c # {}
                  /\ out[n].CYCLE_TIME.some =>
                        \E v \in c : v >= 0 /\ out[n].CYCLE_TIME.v = BitsOf(v)
        /\ (Called /\ ret = "true") => Len(pre) = Target.DLC
        /\ (Called /\ Len(pre) = Target.DLC) => ret # "false"

\* C14's failing case: the message of 300 bytes has DLC 44 and decoded a
\* frame of 300 bytes.
C14_DlcTruncated ==
    /\ Decoded /\ op.m = "WideMessage" /\ Len(pre) = 300
    /\ SchemaOf(op.m).size = 300
    /\ Target.DLC = 44
    /\ Target.CYCLE_TIME = [some |-> TRUE, v |-> BitsOf(2000)]

\* The frame bit (8 * byte + bit) that holds bit i of a signal's raw value:
\* from start_bit upward for a little-endian signal; for a big-endian one
\* the most significant bit is at start_bit and the following bits descend
\* within the byte and go on at bit 7 of the next byte.
LayoutBit(sg, i) ==
    IF sg.byte_order = "LittleEndian" THEN sg.start_bit + i
    ELSE LET q == 8 * (sg.start_bit \div 8) + (7 - (sg.start_bit % 8))
                  + (sg.size - 1 - i)
         IN  8 * (q \div 8) + (7 - (q % 8))
FrameBits(sg) == {LayoutBit(sg, i) : i \in Bits(sg.size)}
RawField(sg, buf) ==
    {i \in Bits(sg.size) :
        LET p == LayoutBit(sg, i) IN (p % 8) \in buf[p \div 8 + 1]}

\* The two's-complement value of a raw field of w bits, in nw bits.
TwosComplement(raw, w, nw) ==
    IF (w - 1) \in raw THEN raw \cup (Bits(nw) \ Bits(w)) ELSE raw

\* An unscaled integer signal of 2..64 bits that is not aligned.
Unaligned(s) ==
    IntegerTyped(s) /\ s.signal.size \in 2 .. 64 /\ ~AlignedSignal(s)
SignedUnaligned(s) == Unaligned(s) /\ s.signal.value_type = "Signed"

\* The signals of the schema messages the derive input names.
RequestedSignals ==
    UNION {{SchemaOf(input[k].ident).signals[j] :
               j \in DOMAIN SchemaOf(input[k].ident).signals} : k \in DOMAIN input}

\* C15: decode of a signed non-aligned signal of either byte order yields the
\* two's-complement value of its width-bit field, wherever the field lies.
C15_SignedDecode ==
    /\ gen = "panic" =>
          \A sg \in RequestedSignals : ~SignedUnaligned(SignalInfo_new(sg))
    /\ (Called /\ op.f = "decode" /\ Len(pre) = Target.dlc /\ AllFit(Target)) =>
          \A s \in TargetSignals :
              SignedUnaligned(s) =>
                  /\ ret = "true"
                  /\ fields[op.m][s.ident]
                       = TwosComplement(RawField(s.signal, pre), s.width, s.nwidth)

\* C15's failing case: a signed little-endian field of 3 bits at start bit 6,
\* whose bits in the frame 0x80 0x80 are 0b010, decoded to -2.
C15_SignSmeared ==
    /\ Decoded /\ Len(Target.infos) = 1
    /\ Target.infos[1].signal
         = Sig(6, 3, "LittleEndian", "Signed", Num(1, 0), Num(0, 0), <<>>)
    /\ pre = PatBuffer(2, 2)
    /\ RawField(Target.infos[1].signal, pre) = {1}
    /\ fields[op.m]["Sig"] = Bits(8) \ {0}

UnsignedUnalignedBE(s) ==
    /\ Unaligned(s)
    /\ s.signal.value_type = "Unsigned"
    /\ s.signal.byte_order = "BigEndian"

\* C16: for an unsigned big-endian signal that is not aligned, also one of
\* fewer than 8 bits that goes on in the following byte, a decoder is
\* generated, and it yields the field's bits from start_bit downward and on
\* from bit 7 of each following byte, most significant first, with zeros
\* above the width.
C16_UnsignedBEDecode ==
    /\ gen = "panic" =>
          \A sg \in RequestedSignals : ~UnsignedUnalignedBE(SignalInfo_new(sg))
    /\ (Called /\ op.f = "decode" /\ Len(pre) = Target.dlc /\ AllFit(Target)) =>
          \A s \in TargetSignals :
              UnsignedUnalignedBE(s) =>
                  /\ ret = "true"
                  /\ fields[op.m][s.ident] = RawField(s.signal, pre)

\* C16's failing case: the derive macro panicked on a schema whose one signal
\* is an unsigned big-endian field of 3 bits at start bit 1.
C16_NoDecoder ==
    /\ gen = "panic" /\ checked
    /\ RequestedSignals
         = {Sig(1, 3, "BigEndian", "Unsigned", Num(1, 0), Num(0, 0), <<>>)}

UnalignedLE(s) == Unaligned(s) /\ s.signal.byte_order = "LittleEndian"

\* C17: after encode, whatever the buffer held, the frame bits start_bit ..
\* start_bit + width - 1 of an unaligned little-endian integer signal are the
\* low width bits of its field, also when a signal of fewer than 8 bits
\* straddles a byte boundary.
C17_UnalignedLEEncode ==
    (Called /\ op.f = "encode" /\ Len(pre) = Target.dlc /\ AllFit(Target)) =>
        \A s \in TargetSignals :
            UnalignedLE(s) =>
                /\ ret = "true"
                /\ RawField(s.signal, pdu) = fields[op.m][s.ident] \cap Bits(s.width)

\* C17's failing case: the field 7 of an unsigned little-endian signal of 3
\* bits at start bit 6 was encoded into two zero bytes, and bit 0 of the
\* second byte stayed 0.
C17_StraddleLost ==
    /\ Encoded /\ Len(Target.infos) = 1
    /\ Target.infos[1].signal
         = Sig(6, 3, "LittleEndian", "Unsigned", Num(1, 0), Num(0, 0), <<>>)
    /\ pre = PatBuffer(0, 2)
    /\ fields[op.m]["Sig"] = Bits(3)
    /\ pdu = <<{6, 7}, {}>>

UnsignedUnalignedLE(s) == UnalignedLE(s) /\ s.signal.value_type = "Unsigned"

\* C18: decode of an unsigned little-endian signal that is not aligned yields
\* the integer whose bit i, for i below the width, is frame bit start_bit + i
\* and whose other bits are zero, whatever the neighbouring bits are.
C18_UnsignedLEDecode ==
    /\ gen = "panic" =>
          \A sg \in RequestedSignals : ~UnsignedUnalignedLE(SignalInfo_new(sg))
    /\ (Called /\ op.f = "decode" /\ Len(pre) = Target.dlc /\ AllFit(Target)) =>
          \A s \in TargetSignals :
              UnsignedUnalignedLE(s) =>
                  /\ ret = "true"
                  /\ fields[op.m][s.ident] = RawField(s.signal, pre)

\* C18's case: a signal of 9 bits at start bit 3 was decoded from a frame of
\* ones, and a signal of 3 bits at start bit 6 from 0x55 0xAA.
C18_Witness ==
    /\ Decoded /\ Len(Target.infos) = 1
    /\ \/ /\ Target.infos[1].signal
               = Sig(3, 9, "LittleEndian", "Unsigned", Num(1, 0), Num(0, 0), <<>>)
          /\ pre = PatBuffer(1, 2)
          /\ fields[op.m]["Sig"] = Bits(9)
       \/ /\ Target.infos[1].signal
               = Sig(6, 3, "LittleEndian", "Unsigned", Num(1, 0), Num(0, 0), <<>>)
          /\ pre = PatBuffer(3, 2)
          /\ fields[op.m]["Sig"] = {0}

\* The frame bits of the selected signals of a generated message.
SelectedBits(g) == UNION {FrameBits(g.infos[i].signal) : i \in DOMAIN g.infos}

\* C19: an encode that returns true changes no frame bit outside the bit
\* ranges of the message's selected signals, and no field of the record,
\* whatever the buffer and the fields held.
C19_EncodeFrame ==
    [][ (calls' = calls + 1 /\ op'.f = "encode" /\ ret' = "true") =>
            /\ fields' = fields
            /\ Len(pdu') = Len(pdu)
            /\ \A k \in DOMAIN pdu :
                  \/ pdu'[k] = pdu[k]
                  \/ \A b \in (pdu'[k] \ pdu[k]) \cup (pdu[k] \ pdu'[k]) :
                        (8 * (k - 1) + b) \in SelectedBits(out[op'.m]) ]_vars

\* C19's case: MiscMessage with Bool_A and Bool_H selected encoded two false
\* fields into a frame of ones, which cleared bits 0 and 7 of the first byte
\* and left Bool_B's bit and the second byte as they were.
C19_Witness ==
    /\ Encoded /\ op.m = "MiscMessage"
    /\ input[1].dbc_signals = <<"Bool_A", "Bool_H">>
    /\ pre = PatBuffer(1, 2)
    /\ pdu = <<Bits(8) \ {0, 7}, Bits(8)>>

\* A 16-bit little-endian integer signal at start bit 0.
Aligned16LE(s) ==
    /\ IntegerTyped(s)
    /\ s.signal.size = 16 /\ s.signal.start_bit = 0
    /\ s.signal.byte_order = "LittleEndian"

\* C20: for every buffer, a 16-bit little-endian signal at start bit 0 gets
\* the same value from extract_unaligned_le, with its first-byte mask of 16
\* bits in the 16-bit storage type, as from extract_aligned, which decoded it.
C20_AlignedAsUnaligned ==
    Decoded =>
        \A s \in TargetSignals :
            Aligned16LE(s) =>
                /\ ~extract_unaligned_le(s, pre, checked).p
                /\ extract_unaligned_le(s, pre, checked).v = fields[op.m][s.ident]
                /\ extract_aligned(s, pre, TRUE).v = fields[op.m][s.ident]

\* C20's failing case: the frame 0xFF 0xFF was decoded to 0xFFFF by the
\* aligned algorithm, and the unaligned one gives 0xFF00 without overflow
\* checks and panics with them.
C20_FirstByteLost ==
    /\ Decoded /\ Len(Target.infos) = 1
    /\ Target.infos[1].signal
         = Sig(0, 16, "LittleEndian", "Unsigned", Num(1, 0), Num(0, 0), <<>>)
    /\ pre = PatBuffer(1, 2)
    /\ fields[op.m]["Sig"] = Bits(16)
    /\ extract_unaligned_le(Target.infos[1], pre, FALSE) = Val(Bits(16) \ Bits(8))
    /\ extract_unaligned_le(Target.infos[1], pre, TRUE) = Panic

\* The name the claim gives the constant of entry j of a signal's value
\* table, and the entries of that table that get the same name.
EntryName(s, j) == sanitized(s.signal.name, s.signal.values[j].description)
SameName(s, j) ==
    {k \in DOMAIN s.signal.values : EntryName(s, k) = EntryName(s, j)}

\* C21: the value-table constants of a generated message have pairwise
\* distinct names, each SIGNAL_DESCRIPTION upper-cased without the characters
\* that are neither alphanumeric nor '_'; entries of one table with the same
\* name give one constant, which carries the later entry's value.
C21_DistinctConstants ==
    gen = "ok" =>
        \A n \in DOMAIN out :
            /\ \A a \in DOMAIN out[n].values : \A b \in DOMAIN out[n].values :
                  a # b => out[n].values[a].name # out[n].values[b].name
            /\ \A i \in DOMAIN out[n].infos :
                  \A j \in DOMAIN out[n].infos[i].signal.values :
                      LET s == out[n].infos[i]
                          last == Max(SameName(s, j))
                          named == {a \in DOMAIN out[n].values :
                                      out[n].values[a].name = EntryName(s, j)}
                      IN  /\ Cardinality(named) = 1
                          /\ \A a \in named :
                                out[n].values[a].value
                                  = const_ident(s, id_as_u32(s.signal.values[last].id))

\* C21's failing case: the table 1 "On", 2 "on" of an 8-bit signal Sig gave
\* two constants SIG_ON, of values 1 and 2.
C21_DuplicateConstant ==
    /\ gen = "ok" /\ "Probe" \in DOMAIN out
    /\ \E a \in DOMAIN out["Probe"].values : \E b \in DOMAIN out["Probe"].values :
          /\ a < b
          /\ out["Probe"].values[a].name = "SIG_ON"
          /\ out["Probe"].values[b].name = "SIG_ON"
          /\ out["Probe"].values[a].type = "u8"
          /\ out["Probe"].values[a].value = BitsOf(1)
          /\ out["Probe"].values[b].value = BitsOf(2)

====
